---- MODULE Spec2Model ----
(***************************************************************************)
(* GitSync: a model of the VCS gateway (app/git_ops.py), the remote change *)
(* detector (app/github_poller.py), the local change watcher               *)
(* (app/local_watcher.py) and the coordinator (app/main.py).               *)
(*                                                                         *)
(* Texts (captured stdout / stderr) are sequences of words; Python's       *)
(* `needle in text` is a contiguous-subsequence test on them.              *)
(* Time is discrete: Tick lets one time unit pass and counts every running *)
(* timer and every timed wait down by one.                                 *)
(***************************************************************************)
EXTENDS Integers, Sequences, FiniteSets, TLC

VARIABLES
    wc,        \* the working copy on disk
    cfg,       \* configuration, fixed after start
    lastCall,  \* the last direct gateway call (gateway specification)
    hpc,       \* observer thread: position inside DebouncedCommitHandler
    lock,      \* holder of DebouncedCommitHandler._lock (Free when not held)
    timer,     \* DebouncedCommitHandler._timer (NoTimer for None)
    timers,    \* every threading.Timer created so far
    nextTimer, \* number of timers created so far
    dropped,   \* the last event delivered lay inside .git and was discarded
    sinceEvent,\* time since the last qualifying event arrived (capped)
    burstSyncs,\* sync sequences started by timers of the current burst
    earlySync, \* a sync sequence started less than a window after the last event
    pushOwed,  \* a commit is unpushed because the last push failed
    ppc,       \* poll_loop: position
    last_sha,  \* poll_loop: last_sha
    sha,       \* poll_loop: sha
    pwait,     \* poll_loop: time left of the running sleep or wait
    madeDir,   \* poll_loop: the running clone created the directory
    pollLog,   \* the observations of the detector and what each one issued
    stop,      \* the shared stop event
    wpc,       \* watch_loop: position
    mpc        \* main: position

\* the groups of variables
fixed == <<cfg, lastCall>>
handler == <<hpc, lock, timer, timers, nextTimer, dropped>>
hist == <<sinceEvent, burstSyncs, earlySync, pushOwed>>
det == <<ppc, last_sha, sha, pwait, madeDir>>
sys == <<stop, wpc, mpc>>
vars == <<wc, fixed, handler, hist, det, pollLog, sys>>

----------------------------------------------------------------------------
(* Texts *)

Whitespace == {" ", "\n"}

RECURSIVE lstrip(_)
lstrip(s) ==
    IF s # <<>> /\ Head(s) \in Whitespace THEN lstrip(Tail(s)) ELSE s

RECURSIVE rstrip(_)
rstrip(s) ==
    IF s # <<>> /\ s[Len(s)] \in Whitespace
    THEN rstrip(SubSeq(s, 1, Len(s) - 1)) ELSE s

\* str.strip()
strip(s) == rstrip(lstrip(s))

\* needle in hay
Contains(hay, needle) ==
    \E i \in 0..(Len(hay) - Len(needle)) :
        SubSeq(hay, i + 1, i + Len(needle)) = needle

NothingToCommit == <<"nothing", "to", "commit">>

\* what git prints when the index equals HEAD and the tree is clean
NothingMsg ==
    <<"On", "branch", "main", "\n", "nothing", "to", "commit", ",",
      "working", "tree", "clean", "\n">>

\* what git prints when the index equals HEAD and the tree has changes
NotStagedMsg ==
    <<"On", "branch", "main", "\n", "no", "changes", "added", "to",
      "commit", "\n">>

FatalMsg == <<"fatal:", "error">>

PorcelainLine == <<" ", "M", " ", "file", "\n">>

----------------------------------------------------------------------------
(* The external git process: what subprocess.run can produce *)

Exit(code, out, err) == [kind |-> "exit", code |-> code, out |-> out, err |-> err]
TimeoutExpired == [kind |-> "timeout", code |-> 0, out |-> <<>>, err |-> <<>>]
OSError == [kind |-> "oserror", code |-> 0, out |-> <<>>, err |-> <<>>]

\* outcomes every command shares: a fatal error, the timeout, no process
Failures == {Exit(128, <<>>, FatalMsg), TimeoutExpired, OSError}

\* git status --porcelain
StatusOutcomes(w) ==
    {Exit(0, IF w.unstaged \/ w.staged THEN PorcelainLine ELSE <<>>, <<>>)}
        \cup Failures

\* git commit -m: with nothing staged git exits 1 and prints its status
CommitOutcomes(w) ==
    IF w.staged
    THEN {Exit(0, <<"[main]", "GitSync:", "auto", "sync">>, <<>>)} \cup Failures
    ELSE LET msg == IF w.unstaged THEN NotStagedMsg ELSE NothingMsg
         IN  {Exit(1, msg, <<>>), Exit(1, <<>>, msg)} \cup Failures

\* git add -A, git push, git pull, git pull --rebase, git remote set-url
PlainOutcomes == {Exit(0, <<>>, <<>>)} \cup Failures

----------------------------------------------------------------------------
(* git_ops.py *)

Ret(v) == [raised |-> FALSE, val |-> v]
Raise == [raised |-> TRUE, val |-> FALSE]

\* _run_git: (returncode, stdout, stderr), (-1, "", "Timeout") on a timeout;
\* any other exception of subprocess.run propagates
run_git(raw) ==
    CASE raw.kind = "exit" ->
            [raised |-> FALSE, code |-> raw.code, out |-> raw.out, err |-> raw.err]
      [] raw.kind = "timeout" ->
            [raised |-> FALSE, code |-> -1, out |-> <<>>, err |-> <<"Timeout">>]
      [] OTHER ->
            [raised |-> TRUE, code |-> 0, out |-> <<>>, err |-> <<>>]

\* _set_remote_url runs only `if repo and token`; its result is dropped
set_remote_url_raises(c, rawUrl) == c.token /\ run_git(rawUrl).raised

has_changes(raw) ==
    LET r == run_git(raw)
    IN  IF r.raised THEN Raise ELSE Ret(r.code = 0 /\ strip(r.out) # <<>>)

add_all(raw) ==
    LET r == run_git(raw)
    IN  IF r.raised THEN Raise ELSE Ret(r.code = 0)

commit(raw) ==
    LET r == run_git(raw)
    IN  IF r.raised THEN Raise
        ELSE IF r.code # 0
             THEN IF Contains(r.err, NothingToCommit) THEN Ret(TRUE) ELSE Ret(FALSE)
             ELSE Ret(TRUE)

push(c, rawUrl, raw) ==
    LET r == run_git(raw)
    IN  IF set_remote_url_raises(c, rawUrl) \/ r.raised THEN Raise
        ELSE Ret(r.code = 0)

pull(c, rawUrl, raw) ==
    LET r == run_git(raw)
    IN  IF set_remote_url_raises(c, rawUrl) \/ r.raised THEN Raise
        ELSE Ret(r.code = 0)

pull_before_push(c, rawUrl, raw) ==
    LET r == run_git(raw)
    IN  IF set_remote_url_raises(c, rawUrl) \/ r.raised THEN Raise
        ELSE Ret(r.code = 0)

is_git_repo(w) == w.isRepo

\* the outcomes of the set-url call: none to choose when it is not made
UrlOutcomes(c) == IF c.token THEN PlainOutcomes ELSE {Exit(0, <<>>, <<>>)}

(* effects of a command that exited 0 on the working copy *)
AfterAdd(w, raw) ==
    IF raw.kind = "exit" /\ raw.code = 0
    THEN [w EXCEPT !.staged = w.staged \/ w.unstaged, !.unstaged = FALSE]
    ELSE w

AfterCommit(w, raw) ==
    IF raw.kind = "exit" /\ raw.code = 0
    THEN [w EXCEPT !.staged = FALSE, !.ahead = TRUE]
    ELSE w

AfterPush(w, raw) ==
    IF raw.kind = "exit" /\ raw.code = 0 THEN [w EXCEPT !.ahead = FALSE] ELSE w


\* str.lower(), on the words the model's texts hold
LowerWord(w) ==
    CASE w = "Remote" -> "remote"
      [] w = "Not" -> "not"
      [] w = "Could" -> "could"
      [] w = "Timeout" -> "timeout"
      [] OTHER -> w

lower(s) == [i \in 1..Len(s) |-> LowerWord(s[i])]

BranchNotFoundMsg ==
    <<"fatal:", "Remote", "branch", "dev", "not", "found", "in", "upstream",
      "origin">>

\* what git prints when the repository cannot be read (absent, or access
\* refused)
RepoNotFoundMsg ==
    <<"remote:", "Repository", "not", "found.", "\n", "fatal:", "repository",
      "not", "found">>

\* git clone --depth 1 [-b <branch>] <url> <path>
CloneOutcomes ==
    {Exit(0, <<>>, <<>>), Exit(128, <<>>, BranchNotFoundMsg),
     Exit(128, <<>>, RepoNotFoundMsg)} \cup Failures

\* clone, line 54: the first clone exited non-zero and its stderr, lowered,
\* holds "not found" or "couldn't find"
clone_retries(raw1) ==
    LET r1 == run_git(raw1)
    IN  /\ ~r1.raised
        /\ r1.code # 0
        /\ \/ Contains(lower(r1.err), <<"not", "found">>)
           \/ Contains(lower(r1.err), <<"couldn't", "find">>)

\* clone: a second clone without -b when the branch was not found
clone(raw1, raw2) ==
    LET r1 == run_git(raw1)
        r2 == run_git(raw2)
    IN  IF r1.raised THEN Raise
        ELSE IF r1.code # 0
             THEN IF clone_retries(raw1)
                  THEN IF r2.raised THEN Raise
                       ELSE IF r2.code = 0 THEN Ret(TRUE) ELSE Ret(FALSE)
                  ELSE Ret(FALSE)
             ELSE Ret(TRUE)

----------------------------------------------------------------------------
(* Bounds and scaled parameters *)

\* timers one handler may create (the qualifying events of a run): in the
\* specification of the watcher alone, and in that of the whole system
MaxTimers == 2
SysTimers == 1
\* debounce_seconds and poll_interval_seconds, in time units
Debounce == 2
PollInterval == 1
\* observations of the detector that are logged
MaxPolls == 5

----------------------------------------------------------------------------
(* local_watcher.py: DebouncedCommitHandler *)

Free == 0
Observer == -1
NoTimer == 0
TimerIds == 1..(IF MaxTimers > SysTimers THEN MaxTimers ELSE SysTimers)

\* the mirrored directory and the events of the model
Root == <<"/", "data", "/", "repo">>
Event(k, src, d) == [kind |-> k, src |-> src, is_directory |-> d]
Events ==
    { Event("created", Root \o <<"/", "a.txt">>, FALSE),
      Event("modified", Root \o <<"/", "a.txt">>, FALSE),
      Event("modified", Root \o <<"/", "sub">>, TRUE),
      Event("deleted", Root \o <<"/", ".gitignore">>, FALSE),
      Event("moved", Root \o <<"/", "sub", "/", "b.txt">>, FALSE),
      Event("created", <<>>, FALSE),
      Event("created", Root \o <<"/", ".git", "/", "index.lock">>, FALSE),
      Event("modified", Root \o <<"/", ".git", "/", "index">>, FALSE),
      Event("modified", Root \o <<"/", ".git", "/", "refs">>, TRUE),
      Event("deleted", Root \o <<"/", ".git", "/", "index.lock">>, FALSE),
      Event("moved", Root \o <<"/", ".git", "/", "refs", "/", "main">>, FALSE) }

IsSep(x) == x = "/"
NotSep(x) == x # "/"

\* pathlib.Path(src).parts: the anchor, then the components
PathParts(src) ==
    IF src = <<>> THEN <<>>
    ELSE (IF IsSep(Head(src)) THEN <<"/">> ELSE <<>>) \o SelectSeq(src, NotSep)

\* the path lies inside the .git directory of the mirrored directory
InGitDir(src) ==
    LET p == PathParts(src)
        r == PathParts(Root)
    IN  /\ Len(p) > Len(r) + 1
        /\ SubSeq(p, 1, Len(r)) = r
        /\ p[Len(r) + 1] = ".git"

\* mutant of IgnoredPath: only the last component is compared with ".git"
IgnoredPath_LastPart(src) ==
    PathParts(src) # <<>> /\ PathParts(src)[Len(PathParts(src))] = ".git"

\* _on_event: ".git" in Path(src).parts
IgnoredPath(src) == \E i \in 1..Len(PathParts(src)) : PathParts(src)[i] = ".git"

\* on_modified drops directory events; the other callbacks pass every event on
ReachesOnEvent(e) == ~(e.kind = "modified" /\ e.is_directory)

\* the event reaches _reset_timer
Qualifies(e) == ReachesOnEvent(e) /\ ~IgnoredPath(e.src)

FreshTimer ==
    [st |-> "unused", rem |-> 0, cur |-> FALSE, owed |-> FALSE, calls |-> <<>>]

\* the thread of timer t is inside _do_commit_and_push
InSync(t) ==
    timers[t].st \in {"is_git_repo", "has_changes", "pull_before_push",
                      "add_all", "commit", "push"}

\* threading.Timer.cancel(): stops a timer still in its wait, and does nothing
\* to one whose function has been entered
Cancel(ts, t) ==
    IF t # NoTimer /\ ts[t].st = "waiting"
    THEN [ts EXCEPT ![t].st = "cancelled"] ELSE ts

\* a qualifying event opens a new burst when a full window has passed since
\* the one before it
OpensBurst == nextTimer = 0 \/ sinceEvent >= Debounce

\* a filesystem change is delivered to the observer thread:
\* on_created / on_modified / on_deleted / on_moved, then _on_event
OnEvent(e, chg) ==
    /\ wpc = "running"
    /\ mpc # "exited"
    /\ hpc = "idle"
    /\ Qualifies(e) => nextTimer < cfg.timers
    /\ wc' = IF IgnoredPath(e.src) \/ ~chg THEN wc
             ELSE [wc EXCEPT !.unstaged = TRUE]
    /\ dropped' = (InGitDir(e.src) /\ ~Qualifies(e))
    /\ IF Qualifies(e)
       THEN /\ hpc' = "reset"
            /\ sinceEvent' = 0
            /\ burstSyncs' = IF OpensBurst THEN 0 ELSE burstSyncs
            /\ timers' = IF OpensBurst
                         THEN [t \in TimerIds |-> [timers[t] EXCEPT !.cur = FALSE]]
                         ELSE timers
       ELSE UNCHANGED <<hpc, sinceEvent, burstSyncs, timers>>
    /\ UNCHANGED <<fixed, lock, timer, nextTimer, earlySync, pushOwed, det,
                   pollLog, sys>>

\* _reset_timer: with self._lock
ResetAcquire ==
    /\ hpc = "reset"
    /\ mpc # "exited"
    /\ lock = Free
    /\ lock' = Observer
    /\ hpc' = "locked"
    /\ UNCHANGED <<wc, fixed, timer, timers, nextTimer, dropped, hist, det,
                   pollLog, sys>>

\* mutant of ResetBody: the lock is not released
ResetBody_KeepsLock ==
    /\ hpc = "locked"
    /\ mpc # "exited"
    /\ nextTimer' = nextTimer + 1
    /\ timers' = [Cancel(timers, timer) EXCEPT
                    ![nextTimer + 1] = [FreshTimer EXCEPT
                        !.st = "waiting", !.rem = Debounce, !.cur = TRUE]]
    /\ timer' = nextTimer + 1
    /\ hpc' = "idle"
    /\ UNCHANGED <<wc, fixed, lock, dropped, hist, det, pollLog, sys>>

\* _reset_timer: cancel the old timer, start a new one, leave the lock
ResetBody ==
    /\ hpc = "locked"
    /\ mpc # "exited"
    /\ nextTimer' = nextTimer + 1
    /\ timers' = [Cancel(timers, timer) EXCEPT
                    ![nextTimer + 1] = [FreshTimer EXCEPT
                        !.st = "waiting", !.rem = Debounce, !.cur = TRUE]]
    /\ timer' = nextTimer + 1
    /\ lock' = Free
    /\ hpc' = "idle"
    /\ UNCHANGED <<wc, fixed, dropped, hist, det, pollLog, sys>>

\* Timer.run: the wait ended and finished is not set, the function is entered
TimerExpire(t) ==
    /\ timers[t].st = "waiting"
    /\ timers[t].rem = 0
    /\ timers' = [timers EXCEPT ![t].st = "fired"]
    /\ UNCHANGED <<wc, fixed, hpc, lock, timer, nextTimer, dropped, hist, det,
                   pollLog, sys>>

\* _on_timer: with self._lock
OnTimerAcquire(t) ==
    /\ timers[t].st = "fired"
    /\ lock = Free
    /\ lock' = t
    /\ timers' = [timers EXCEPT ![t].st = "locked"]
    /\ UNCHANGED <<wc, fixed, hpc, timer, nextTimer, dropped, hist, det,
                   pollLog, sys>>

\* _on_timer: self._timer = None, leave the lock, call _do_commit_and_push
OnTimerBody(t) ==
    /\ timers[t].st = "locked"
    /\ timer' = NoTimer
    /\ lock' = Free
    /\ timers' = [timers EXCEPT ![t].st = "is_git_repo", ![t].owed = pushOwed]
    /\ burstSyncs' = IF timers[t].cur THEN burstSyncs + 1 ELSE burstSyncs
    /\ earlySync' = (earlySync \/ (timers[t].cur /\ sinceEvent < Debounce))
    /\ pushOwed' = FALSE
    /\ UNCHANGED <<wc, fixed, hpc, nextTimer, dropped, sinceEvent, det, pollLog,
                   sys>>

Call(op, ret, cmdOk) == [op |-> op, ret |-> ret, cmdOk |-> cmdOk]
CmdOk(raw) == raw.kind = "exit" /\ raw.code = 0

\* where a gateway call that returned r leaves the sequence: at `next` when
\* it returned True, at its end when it returned False, dead when it raised
After(r, next) == IF r.raised THEN "crashed" ELSE IF r.val THEN next ELSE "done"

Step(t, op, r, raw, next) ==
    [timers EXCEPT
        ![t].calls = Append(@, Call(op, r.val, CmdOk(raw))),
        ![t].st = After(r, next)]

\* _do_commit_and_push: if not git_ops.is_git_repo(local_path): return
SyncIsRepo(t) ==
    /\ timers[t].st = "is_git_repo"
    /\ timers' = Step(t, "is_git_repo", Ret(is_git_repo(wc)),
                      Exit(0, <<>>, <<>>), "has_changes")
    /\ UNCHANGED <<wc, fixed, hpc, lock, timer, nextTimer, dropped, hist, det,
                   pollLog, sys>>

\* mutant of SyncHasChanges: the sequence goes on whatever has_changes returns
SyncHasChanges_Proceeds(t) ==
    /\ timers[t].st = "has_changes"
    /\ \E raw \in StatusOutcomes(wc) :
        timers' = [Step(t, "has_changes", has_changes(raw), raw, "add_all")
                     EXCEPT ![t].st = IF cfg.pull_before_push
                                      THEN "pull_before_push" ELSE "add_all"]
    /\ UNCHANGED <<wc, fixed, hpc, lock, timer, nextTimer, dropped, hist, det,
                   pollLog, sys>>

\* if not git_ops.has_changes(local_path): return
SyncHasChanges(t) ==
    /\ timers[t].st = "has_changes"
    /\ \E raw \in StatusOutcomes(wc) :
        timers' = Step(t, "has_changes", has_changes(raw), raw,
                       IF cfg.pull_before_push THEN "pull_before_push"
                       ELSE "add_all")
    /\ UNCHANGED <<wc, fixed, hpc, lock, timer, nextTimer, dropped, hist, det,
                   pollLog, sys>>

\* mutant of SyncPull: a failed pull-rebase does not end the sequence
SyncPull_Proceeds(t) ==
    /\ timers[t].st = "pull_before_push"
    /\ \E rawUrl \in UrlOutcomes(cfg), raw \in PlainOutcomes :
        timers' = [Step(t, "pull_before_push",
                        pull_before_push(cfg, rawUrl, raw), raw, "add_all")
                     EXCEPT ![t].st = "add_all"]
    /\ UNCHANGED <<wc, fixed, hpc, lock, timer, nextTimer, dropped, hist, det,
                   pollLog, sys>>

\* if self.pull_before_push: if not git_ops.pull_before_push(...): return
SyncPull(t) ==
    /\ timers[t].st = "pull_before_push"
    /\ \E rawUrl \in UrlOutcomes(cfg), raw \in PlainOutcomes :
        timers' = Step(t, "pull_before_push",
                       pull_before_push(cfg, rawUrl, raw), raw, "add_all")
    /\ UNCHANGED <<wc, fixed, hpc, lock, timer, nextTimer, dropped, hist, det,
                   pollLog, sys>>

\* if not git_ops.add_all(local_path): return
SyncAdd(t) ==
    /\ timers[t].st = "add_all"
    /\ \E raw \in PlainOutcomes :
        /\ timers' = Step(t, "add_all", add_all(raw), raw, "commit")
        /\ wc' = AfterAdd(wc, raw)
    /\ UNCHANGED <<fixed, hpc, lock, timer, nextTimer, dropped, hist, det,
                   pollLog, sys>>

\* mutant of SyncCommit: push follows a commit that returned False
SyncCommit_Proceeds(t) ==
    /\ timers[t].st = "commit"
    /\ \E raw \in CommitOutcomes(wc) :
        /\ timers' = [Step(t, "commit", commit(raw), raw, "push")
                        EXCEPT ![t].st = "push"]
        /\ wc' = AfterCommit(wc, raw)
    /\ UNCHANGED <<fixed, hpc, lock, timer, nextTimer, dropped, hist, det,
                   pollLog, sys>>

\* if not git_ops.commit(...): return
SyncCommit(t) ==
    /\ timers[t].st = "commit"
    /\ \E raw \in CommitOutcomes(wc) :
        /\ timers' = Step(t, "commit", commit(raw), raw, "push")
        /\ wc' = AfterCommit(wc, raw)
    /\ UNCHANGED <<fixed, hpc, lock, timer, nextTimer, dropped, hist, det,
                   pollLog, sys>>

\* if not git_ops.push(...): logger.error(...)
SyncPush(t) ==
    /\ timers[t].st = "push"
    /\ \E rawUrl \in UrlOutcomes(cfg), raw \in PlainOutcomes :
        LET r == push(cfg, rawUrl, raw)
            w == IF set_remote_url_raises(cfg, rawUrl) THEN wc
                 ELSE AfterPush(wc, raw)
        IN  /\ timers' = Step(t, "push", r, raw, "done")
            /\ wc' = w
            /\ pushOwed' = (w.ahead /\ (r.raised \/ ~r.val))
    /\ UNCHANGED <<fixed, hpc, lock, timer, nextTimer, dropped, sinceEvent,
                   burstSyncs, earlySync, det, pollLog, sys>>

\* Timer.run returns (or dies of the exception): the thread and its locals go
TimerExit(t) ==
    /\ timers[t].st \in {"cancelled", "done", "crashed"}
    /\ timers' = [timers EXCEPT ![t] = [FreshTimer EXCEPT !.st = "exited"]]
    /\ UNCHANGED <<wc, fixed, hpc, lock, timer, nextTimer, dropped, hist, det,
                   pollLog, sys>>

Min(a, b) == IF a < b THEN a ELSE b

\* one time unit passes
Tick ==
    /\ mpc # "exited"
    /\ sinceEvent' = Min(sinceEvent + 1, Debounce)
    /\ timers' = [t \in TimerIds |->
                    IF timers[t].st = "waiting" /\ timers[t].rem > 0
                    THEN [timers[t] EXCEPT !.rem = @ - 1] ELSE timers[t]]
    /\ pwait' = IF pwait > 0 THEN pwait - 1 ELSE 0
    /\ UNCHANGED <<wc, fixed, hpc, lock, timer, nextTimer, dropped, burstSyncs,
                   earlySync, pushOwed, ppc, last_sha, sha, madeDir, pollLog,
                   sys>>

HandlerNext ==
    \/ \E e \in Events, chg \in BOOLEAN : OnEvent(e, chg)
    \/ ResetAcquire
    \/ ResetBody
    \/ \E t \in TimerIds : TimerExpire(t)
    \/ \E t \in TimerIds : OnTimerAcquire(t)
    \/ \E t \in TimerIds : OnTimerBody(t)
    \/ \E t \in TimerIds : SyncIsRepo(t)
    \/ \E t \in TimerIds : SyncHasChanges(t)
    \/ \E t \in TimerIds : SyncPull(t)
    \/ \E t \in TimerIds : SyncAdd(t)
    \/ \E t \in TimerIds : SyncCommit(t)
    \/ \E t \in TimerIds : SyncPush(t)
    \/ \E t \in TimerIds : TimerExit(t)

----------------------------------------------------------------------------
(* github_poller.py *)

None == "None"
Revs == {"A", "B"}

OwnerRepo == <<"owner", "/", "repo">>
HttpsUrl == <<"https://github.com/", "owner", "/", "repo", ".git">>
SshUrl == <<"git@", "github.com:", "owner", "/", "repo", ".git">>
Bare == <<"myrepo">>

\* _normalize_repo: 'https://github.com/owner/repo.git' -> 'owner/repo'
normalize_repo(repo) ==
    IF Len(repo) >= 4 /\ repo[1] = "https://github.com/" /\ repo[3] = "/"
    THEN <<repo[2], "/", repo[4]>>
    ELSE IF Len(repo) >= 5 /\ repo[1] = "git@" /\ repo[2] = "github.com:"
            /\ repo[4] = "/"
         THEN <<repo[3], "/", repo[5]>>
         ELSE repo

\* "/" in normalized
HasSlash(n) == \E i \in 1..Len(n) : n[i] = "/"

\* what requests.get and the response can do
FetchOutcomes ==
    {[kind |-> "ok", sha |-> r] : r \in Revs}
        \cup {[kind |-> k, sha |-> None] :
                 k \in {"transport_error", "http_error", "no_sha", "not_object"}}

\* fetch_latest_sha: data.get("sha"); None on a RequestException; a body
\* that is no JSON object fails outside the except clause
fetch_latest_sha(o) ==
    CASE o.kind = "ok" -> Ret(o.sha)
      [] o.kind \in {"transport_error", "http_error"} -> Ret(None)
      [] o.kind = "no_sha" -> Ret(None)
      [] OTHER -> [raised |-> TRUE, val |-> None]

\* the log of the detector's observations: what was fetched, what the
\* iteration found (last_sha, a working copy or none), the gateway call it
\* issued and whether the query and the call succeeded
Obs(s, seen, repo, call, ok) ==
    [sha |-> s, seen |-> seen, repo |-> repo, call |-> call, ok |-> ok]

LogDetector ==
    IF ~cfg.log THEN UNCHANGED pollLog ELSE
    pollLog' =
        CASE ppc = "fetch" /\ ppc' # "decide" ->
                Append(pollLog, Obs(None, last_sha, is_git_repo(wc), "none", FALSE))
          [] ppc = "decide" /\ ppc' = "clone" ->
                Append(pollLog, Obs(sha, last_sha, is_git_repo(wc), "clone", TRUE))
          [] ppc = "decide" /\ ppc' = "pull" ->
                Append(pollLog, Obs(sha, last_sha, is_git_repo(wc), "pull", TRUE))
          [] ppc = "decide" /\ ppc' = "wait" ->
                Append(pollLog, Obs(sha, last_sha, is_git_repo(wc), "none", TRUE))
          [] OTHER -> pollLog

\* the gateway call of the iteration has returned: whether it returned True
LogResult(ok) ==
    IF ~cfg.log THEN UNCHANGED pollLog
    ELSE pollLog' = [pollLog EXCEPT ![Len(pollLog)].ok = ok]

\* what a clone that did not return True leaves on disk: git removes what it
\* created when it fails, and can remove nothing when the timeout kills it
AfterFailedClone(w, made, raw1, raw2) ==
    {[w EXCEPT !.dir = ~made]}
        \cup (IF \/ raw1.kind = "timeout"
                 \/ (clone_retries(raw1) /\ raw2.kind = "timeout")
              THEN {[w EXCEPT !.dir = TRUE, !.isRepo = TRUE]} ELSE {})

\* poll_loop up to the loop: an identifier without "/" ends the task
PollStart ==
    /\ ppc = "start"
    /\ ppc' = IF HasSlash(normalize_repo(cfg.repo)) THEN "loop" ELSE "returned"
    /\ last_sha' = None
    /\ UNCHANGED <<wc, fixed, handler, hist, sha, pwait, madeDir, sys>>
    /\ LogDetector

\* while not stop_event.is_set()
PollTest ==
    /\ ppc = "loop"
    /\ ppc' = IF stop THEN "returned" ELSE "fetch"
    /\ UNCHANGED <<wc, fixed, handler, hist, last_sha, sha, pwait, madeDir, sys>>
    /\ LogDetector

\* sha = fetch_latest_sha(...); if sha is None: time.sleep(interval); continue
PollFetch ==
    /\ ppc = "fetch"
    /\ cfg.log => Len(pollLog) < MaxPolls
    /\ \E o \in FetchOutcomes :
        LET r == fetch_latest_sha(o)
        IN  /\ ppc' = IF r.raised THEN "wait"
                      ELSE IF r.val = None THEN "sleep" ELSE "decide"
            /\ sha' = r.val
            /\ pwait' = IF r.raised \/ r.val = None THEN PollInterval ELSE pwait
    /\ UNCHANGED <<wc, fixed, handler, hist, last_sha, madeDir, sys>>
    /\ LogDetector

\* if not git_ops.is_git_repo(local_path): git_ops.clone(...) is entered and
\* git creates the directory
PollClone ==
    /\ ppc = "decide"
    /\ ~is_git_repo(wc)
    /\ ppc' = "clone"
    /\ madeDir' = ~wc.dir
    /\ wc' = [wc EXCEPT !.dir = TRUE]
    /\ UNCHANGED <<fixed, handler, hist, last_sha, sha, pwait, sys>>
    /\ LogDetector

\* mutant of PollCloneEnd: the cloned revision is not adopted as last_sha
PollCloneEnd_NoAdopt ==
    /\ ppc = "clone"
    /\ \E raw1 \in CloneOutcomes, raw2 \in CloneOutcomes :
        LET r == clone(raw1, raw2)
            cloned == ~r.raised /\ r.val
        IN  /\ wc' \in IF cloned THEN {[wc EXCEPT !.isRepo = TRUE]}
                        ELSE AfterFailedClone(wc, madeDir, raw1, raw2)
            /\ LogResult(cloned)
    /\ ppc' = "wait"
    /\ pwait' = PollInterval
    /\ madeDir' = FALSE
    /\ UNCHANGED <<fixed, handler, hist, last_sha, sha, sys>>

\* git_ops.clone(...) returns: last_sha = sha on success; git removes what
\* it created on failure
PollCloneEnd ==
    /\ ppc = "clone"
    /\ \E raw1 \in CloneOutcomes, raw2 \in CloneOutcomes :
        LET r == clone(raw1, raw2)
            cloned == ~r.raised /\ r.val
        IN  /\ wc' \in IF cloned THEN {[wc EXCEPT !.isRepo = TRUE]}
                        ELSE AfterFailedClone(wc, madeDir, raw1, raw2)
            /\ last_sha' = IF cloned THEN sha ELSE last_sha
            /\ LogResult(cloned)
    /\ ppc' = "wait"
    /\ pwait' = PollInterval
    /\ madeDir' = FALSE
    /\ UNCHANGED <<fixed, handler, hist, sha, sys>>

\* mutant of PollPull: last_sha is not tested for None
PollPull_NoNullTest ==
    /\ ppc = "decide"
    /\ is_git_repo(wc)
    /\ sha # last_sha
    /\ ppc' = "pull"
    /\ UNCHANGED <<wc, fixed, handler, hist, last_sha, sha, pwait, madeDir, sys>>
    /\ LogDetector

\* elif last_sha is not None and sha != last_sha: git_ops.pull(...) is entered
PollPull ==
    /\ ppc = "decide"
    /\ is_git_repo(wc)
    /\ last_sha # None /\ sha # last_sha
    /\ ppc' = "pull"
    /\ UNCHANGED <<wc, fixed, handler, hist, last_sha, sha, pwait, madeDir, sys>>
    /\ LogDetector

\* mutant of PollPullEnd: the fetched revision is adopted whatever pull returned
PollPullEnd_AlwaysAdopt ==
    /\ ppc = "pull"
    /\ \E rawUrl \in UrlOutcomes(cfg), raw \in PlainOutcomes :
        LET r == pull(cfg, rawUrl, raw)
        IN  /\ last_sha' = sha
            /\ LogResult(~r.raised /\ r.val)
    /\ ppc' = "wait"
    /\ pwait' = PollInterval
    /\ UNCHANGED <<wc, fixed, handler, hist, sha, madeDir, sys>>

\* git_ops.pull(...) returns: last_sha = sha on success
PollPullEnd ==
    /\ ppc = "pull"
    /\ \E rawUrl \in UrlOutcomes(cfg), raw \in PlainOutcomes :
        LET r == pull(cfg, rawUrl, raw)
        IN  /\ last_sha' = IF ~r.raised /\ r.val THEN sha ELSE last_sha
            /\ LogResult(~r.raised /\ r.val)
    /\ ppc' = "wait"
    /\ pwait' = PollInterval
    /\ UNCHANGED <<wc, fixed, handler, hist, sha, madeDir, sys>>

\* else: if last_sha is None: last_sha = sha
PollNoop ==
    /\ ppc = "decide"
    /\ is_git_repo(wc)
    /\ ~(last_sha # None /\ sha # last_sha)
    /\ last_sha' = IF last_sha = None THEN sha ELSE last_sha
    /\ ppc' = "wait"
    /\ pwait' = PollInterval
    /\ UNCHANGED <<wc, fixed, handler, hist, sha, madeDir, sys>>
    /\ LogDetector

\* mutant of PollSleepEnd: the sleep is cut short
PollSleepEnd_CutShort ==
    /\ ppc = "sleep"
    /\ ppc' = "loop"
    /\ UNCHANGED <<wc, fixed, handler, hist, last_sha, sha, pwait, madeDir, sys>>
    /\ LogDetector

\* time.sleep(interval_seconds) ends; continue
PollSleepEnd ==
    /\ ppc = "sleep"
    /\ pwait = 0
    /\ ppc' = "loop"
    /\ UNCHANGED <<wc, fixed, handler, hist, last_sha, sha, pwait, madeDir, sys>>
    /\ LogDetector

\* stop_event.wait(interval_seconds) ends: the event is set or the time is up
PollWake ==
    /\ ppc = "wait"
    /\ stop \/ pwait = 0
    /\ ppc' = "loop"
    /\ pwait' = 0
    /\ UNCHANGED <<wc, fixed, handler, hist, last_sha, sha, madeDir, sys>>
    /\ LogDetector

DetectorNext ==
    \/ PollStart
    \/ PollTest
    \/ PollFetch
    \/ PollClone
    \/ PollCloneEnd
    \/ PollPull
    \/ PollPullEnd
    \/ PollNoop
    \/ PollSleepEnd
    \/ PollWake

----------------------------------------------------------------------------
(* main.py and watch_loop *)

\* SIGTERM / SIGINT: on_stop
StopSignal ==
    /\ mpc = "joining"
    /\ ~stop
    /\ stop' = TRUE
    /\ UNCHANGED <<wc, fixed, handler, hist, det, pollLog, wpc, mpc>>

\* main: t_poll.start(); t_watch.start()
MainStart ==
    /\ mpc = "start"
    /\ mpc' = "joining"
    /\ ppc' = "start"
    /\ wpc' = "waitdir"
    /\ UNCHANGED <<wc, fixed, handler, hist, last_sha, sha, pwait, madeDir,
                   pollLog, stop>>

\* the timer threads are daemon threads: they end with the process
AtExit(ts) ==
    [t \in TimerIds |->
        IF ts[t].st \in {"unused", "exited"} THEN ts[t]
        ELSE [ts[t] EXCEPT !.st =
                IF ts[t].st \in {"is_git_repo", "has_changes", "pull_before_push",
                                 "add_all", "commit", "push"}
                THEN "killed" ELSE "dropped"]]

\* main: for t in threads: t.join(); main returns and the process ends
MainJoin ==
    /\ mpc = "joining"
    /\ ppc = "returned"
    /\ wpc = "returned"
    /\ mpc' = "exited"
    /\ timers' = AtExit(timers)
    /\ UNCHANGED <<wc, fixed, hpc, lock, timer, nextTimer, dropped, hist, det,
                   pollLog, stop, wpc>>

\* watch_loop: while not path.exists() and not stop_event.is_set()
WatchWaitTest ==
    /\ wpc = "waitdir"
    /\ wpc' = IF ~wc.dir /\ ~stop THEN "dirwait" ELSE "check"
    /\ UNCHANGED <<wc, fixed, handler, hist, det, pollLog, stop, mpc>>

\* stop_event.wait(5) ends
WatchDirWake ==
    /\ wpc = "dirwait"
    /\ wpc' = "waitdir"
    /\ UNCHANGED <<wc, fixed, handler, hist, det, pollLog, stop, mpc>>

\* if not path.exists(): return; else the handler is made and the observer
\* started
WatchCheck ==
    /\ wpc = "check"
    /\ wpc' = IF ~wc.dir THEN "returned" ELSE "running"
    /\ UNCHANGED <<wc, fixed, handler, hist, det, pollLog, stop, mpc>>

\* while not stop_event.is_set(): stop_event.wait(1.0); then observer.stop()
\* and observer.join(timeout=5.0)
WatchStop ==
    /\ wpc = "running"
    /\ stop
    /\ wpc' = "returned"
    /\ UNCHANGED <<wc, fixed, handler, hist, det, pollLog, stop, mpc>>

SystemNext ==
    \/ StopSignal
    \/ MainStart
    \/ MainJoin
    \/ WatchWaitTest
    \/ WatchDirWake
    \/ WatchCheck
    \/ WatchStop

----------------------------------------------------------------------------
(* Specifications *)

NoCall == [op |-> "none", nothingStaged |-> FALSE, raw |-> Exit(0, <<>>, <<>>),
           ret |-> Ret(TRUE)]

WorkingCopies ==
    {w \in [dir : BOOLEAN, isRepo : BOOLEAN, unstaged : BOOLEAN,
            staged : BOOLEAN, ahead : BOOLEAN] : w.isRepo => w.dir}

\* a directory as the process finds it: absent, present, or a clean clone
StartCopies == {w \in WorkingCopies : ~w.unstaged /\ ~w.staged /\ ~w.ahead}

\* pull_before_push, the token, the repository; and for the run: the number
\* of timers allowed, whether the detector's observations are logged
Configs(pbp, repos, n, log) ==
    [pull_before_push : pbp, token : BOOLEAN, repo : repos, timers : {n},
     log : {log}]

InitHandler ==
    /\ hpc = "idle"
    /\ lock = Free
    /\ timer = NoTimer
    /\ timers = [t \in TimerIds |-> FreshTimer]
    /\ nextTimer = 0
    /\ dropped = FALSE
    /\ sinceEvent = Debounce
    /\ burstSyncs = 0
    /\ earlySync = FALSE
    /\ pushOwed = FALSE

InitDetector ==
    /\ ppc = "init"
    /\ last_sha = None
    /\ sha = None
    /\ pwait = 0
    /\ madeDir = FALSE
    /\ pollLog = <<>>

\* the watcher alone: a handler attached to an existing directory
InitWatcher ==
    /\ wc \in {w \in StartCopies : w.dir}
    /\ cfg \in Configs(BOOLEAN, {OwnerRepo}, MaxTimers, FALSE)
    /\ lastCall = NoCall
    /\ InitHandler
    /\ InitDetector
    /\ stop = FALSE
    /\ wpc = "running"
    /\ mpc = "joining"

NextWatcher == HandlerNext \/ Tick

SpecWatcher == InitWatcher /\ [][NextWatcher]_vars

\* the detector alone: poll_loop has been called
InitPoller ==
    /\ wc \in StartCopies
    /\ cfg \in Configs({TRUE}, {OwnerRepo, SshUrl, Bare}, 0, TRUE)
    /\ lastCall = NoCall
    /\ InitHandler
    /\ InitDetector
    /\ stop = FALSE
    /\ wpc = "init"
    /\ mpc = "start"

PollerStart ==
    /\ mpc = "start"
    /\ mpc' = "joining"
    /\ ppc' = "start"
    /\ UNCHANGED <<wc, fixed, handler, hist, last_sha, sha, pwait, madeDir,
                   pollLog, stop, wpc>>

NextDetector ==
    \/ PollerStart
    \/ StopSignal
    \/ Tick
    \/ DetectorNext

SpecDetector == InitPoller /\ [][NextDetector]_vars

\* one mirror: main, its detector, its watcher and the watcher's handler
Init ==
    /\ wc \in StartCopies
    /\ cfg \in Configs(BOOLEAN, {OwnerRepo, Bare}, SysTimers, FALSE)
    /\ lastCall = NoCall
    /\ InitHandler
    /\ InitDetector
    /\ stop = FALSE
    /\ wpc = "init"
    /\ mpc = "start"

Next ==
    \/ SystemNext
    \/ DetectorNext
    \/ HandlerNext
    \/ Tick

Spec == Init /\ [][Next]_vars

\* the threads that run on their own: every step but the arrival of an
\* event, the stop signal and the passing of time
FairSpec ==
    /\ Spec
    /\ WF_vars(DetectorNext)
    /\ WF_vars(ResetAcquire \/ ResetBody)
    /\ \A t \in TimerIds :
        WF_vars(OnTimerAcquire(t) \/ OnTimerBody(t) \/ SyncIsRepo(t)
                \/ SyncHasChanges(t) \/ SyncPull(t) \/ SyncAdd(t)
                \/ SyncCommit(t) \/ SyncPush(t) \/ TimerExit(t))
    /\ WF_vars(WatchWaitTest \/ WatchDirWake \/ WatchCheck \/ WatchStop)
    /\ WF_vars(MainJoin)

\* the gateway alone, called on a directory as the process may find it
InitGit ==
    /\ wc \in StartCopies
    /\ cfg \in Configs({TRUE}, {OwnerRepo}, 0, FALSE)
    /\ lastCall = NoCall
    /\ InitHandler
    /\ InitDetector
    /\ stop = FALSE
    /\ wpc = "init"
    /\ mpc = "start"

Called(op, raw, ret) ==
    [op |-> op, nothingStaged |-> ~wc.staged, raw |-> raw, ret |-> ret]

\* a file of the working copy is edited
GitEdit ==
    /\ is_git_repo(wc)
    /\ wc' = [wc EXCEPT !.unstaged = TRUE]
    /\ UNCHANGED <<fixed, handler, hist, det, pollLog, sys>>

GitStatus ==
    /\ is_git_repo(wc)
    /\ \E raw \in StatusOutcomes(wc) :
        lastCall' = Called("has_changes", raw, has_changes(raw))
    /\ UNCHANGED <<wc, cfg, handler, hist, det, pollLog, sys>>

GitAdd ==
    /\ is_git_repo(wc)
    /\ \E raw \in PlainOutcomes :
        /\ lastCall' = Called("add_all", raw, add_all(raw))
        /\ wc' = AfterAdd(wc, raw)
    /\ UNCHANGED <<cfg, handler, hist, det, pollLog, sys>>

GitCommit ==
    /\ is_git_repo(wc)
    /\ \E raw \in CommitOutcomes(wc) :
        /\ lastCall' = Called("commit", raw, commit(raw))
        /\ wc' = AfterCommit(wc, raw)
    /\ UNCHANGED <<cfg, handler, hist, det, pollLog, sys>>

GitPush ==
    /\ is_git_repo(wc)
    /\ \E rawUrl \in UrlOutcomes(cfg), raw \in PlainOutcomes :
        /\ lastCall' = Called("push", raw, push(cfg, rawUrl, raw))
        /\ wc' = IF set_remote_url_raises(cfg, rawUrl) THEN wc
                 ELSE AfterPush(wc, raw)
    /\ UNCHANGED <<cfg, handler, hist, det, pollLog, sys>>

\* a clone call: the first git clone, the second one if it is made, what
\* clone returned and how many git processes it ran
ClonedCall(raw1, raw2, ret) ==
    [op |-> "clone", nothingStaged |-> FALSE, raw |-> raw1, raw2 |-> raw2,
     ret |-> ret, runs |-> IF clone_retries(raw1) THEN 2 ELSE 1]

\* the outcomes of the second clone: none to choose when it is not made
SecondOutcomes(raw1) ==
    IF clone_retries(raw1) THEN CloneOutcomes ELSE {Exit(0, <<>>, <<>>)}

\* clone into a directory that holds no working copy
GitClone ==
    /\ ~is_git_repo(wc)
    /\ \E raw1 \in CloneOutcomes :
        \E raw2 \in SecondOutcomes(raw1) :
            LET r == clone(raw1, raw2)
            IN  /\ lastCall' = ClonedCall(raw1, raw2, r)
                /\ wc' = IF ~r.raised /\ r.val
                         THEN [wc EXCEPT !.dir = TRUE, !.isRepo = TRUE]
                         ELSE wc
    /\ UNCHANGED <<cfg, handler, hist, det, pollLog, sys>>

NextGit == GitEdit \/ GitStatus \/ GitAdd \/ GitCommit \/ GitPush \/ GitClone

SpecGit == InitGit /\ [][NextGit]_vars

----------------------------------------------------------------------------
(* Claims *)

\* C1: for a burst of qualifying events, each less than a debounce window
\* after the one before, exactly one sync sequence is started, and not before
\* a full window has passed since the last event of the burst. Stated on the
\* burst still open: its timers have started at most one sync sequence, and
\* none less than a window after its last event.
C1_OneSyncPerBurst == burstSyncs <= 1 /\ ~earlySync

\* C2: started without a working copy and with every query and gateway call
\* succeeding, the detector clones at the first observation and adopts its
\* revision, then pulls at exactly the observations whose revision differs
\* from last-seen (the revision of the observation before) and issues nothing
\* at the others.
AllOk(log) == \A i \in 1..Len(log) : log[i].ok

C2_CloneOncePullOnChange ==
    (pollLog # <<>> /\ ~pollLog[1].repo /\ AllOk(pollLog)) =>
        \A i \in 1..Len(pollLog) :
            /\ pollLog[i].call =
                 IF i = 1 THEN "clone"
                 ELSE IF pollLog[i].sha # pollLog[i].seen THEN "pull" ELSE "none"
            /\ i > 1 => pollLog[i].seen = pollLog[i - 1].sha

\* the sequence [A, A, B, B, A]: one clone and two pulls
C2_Witness ==
    /\ Len(pollLog) = 5
    /\ AllOk(pollLog)
    /\ [i \in 1..5 |-> pollLog[i].sha] = <<"A", "A", "B", "B", "A">>
    /\ [i \in 1..5 |-> pollLog[i].call] = <<"clone", "none", "pull", "none", "pull">>
    /\ ppc = "wait"
    /\ last_sha = "A"

\* C3: in a sync sequence, once has_changes reports no pending changes (the
\* status command failing included), no further gateway call is issued and
\* the sequence has ended.
C3_NoChangesNoCalls ==
    \A t \in TimerIds :
        \A i \in 1..Len(timers[t].calls) :
            LET c == timers[t].calls[i]
            IN  (c.op = "has_changes" /\ (~c.ret \/ ~c.cmdOk)) =>
                    /\ i = Len(timers[t].calls)
                    /\ timers[t].st \in {"done", "crashed"}

C3_Witness ==
    \E t \in TimerIds :
        /\ timers[t].st = "done"
        /\ Len(timers[t].calls) = 2
        /\ timers[t].calls[2] = Call("has_changes", FALSE, FALSE)
        /\ wc.unstaged

\* C4: with pull_before_push enabled, a failed pull-rebase is the last
\* gateway call of its sync sequence; with it disabled, no sync sequence
\* issues a pull-rebase.
C4_PullFailureStops ==
    \A t \in TimerIds :
        \A i \in 1..Len(timers[t].calls) :
            LET c == timers[t].calls[i]
            IN  c.op = "pull_before_push" =>
                    /\ cfg.pull_before_push
                    /\ ~c.ret =>
                        /\ i = Len(timers[t].calls)
                        /\ timers[t].st \in {"done", "crashed"}

C4_Witness ==
    \E t \in TimerIds :
        /\ timers[t].st = "done"
        /\ cfg.pull_before_push
        /\ Len(timers[t].calls) = 3
        /\ timers[t].calls[3] = Call("pull_before_push", FALSE, FALSE)

\* C5: an event of any kind whose path lies inside the .git directory of the
\* mirrored directory leaves the debounce timer as it was: nothing cancelled,
\* nothing scheduled, no call of _reset_timer.
GitDirEvents == {e \in Events : InGitDir(e.src)}

C5_GitEventsLeaveTimer ==
    [][(\E e \in GitDirEvents, chg \in BOOLEAN : OnEvent(e, chg)) =>
          UNCHANGED <<hpc, lock, timer, timers, nextTimer>>]_vars

C5_Witness ==
    /\ dropped
    /\ timer # NoTimer
    /\ timers[timer].st = "waiting"
    /\ timers[timer].rem < Debounce

\* C7: the sync sequence fired next after a cycle whose commit succeeded and
\* whose push failed issues push again, when no gateway command of it fails.
C7_NextFirePushes ==
    \A t \in TimerIds :
        (/\ timers[t].st = "done"
         /\ timers[t].owed
         /\ \A i \in 1..Len(timers[t].calls) : timers[t].calls[i].cmdOk)
            => \E i \in 1..Len(timers[t].calls) : timers[t].calls[i].op = "push"

\* C10: commit on a working copy with nothing staged, where git exits
\* non-zero with "nothing to commit" in its captured output, returns True.
C10_NothingToCommitIsSuccess ==
    (/\ lastCall.op = "commit"
     /\ lastCall.nothingStaged
     /\ lastCall.raw.kind = "exit"
     /\ lastCall.raw.code # 0
     /\ \/ Contains(lastCall.raw.out, NothingToCommit)
        \/ Contains(lastCall.raw.err, NothingToCommit))
        => (~lastCall.ret.raised /\ lastCall.ret.val)

\* C6: a detector and a watcher of one mirror never block each other: the
\* lock of the handler is held only by the observer thread or a timer thread,
\* and, while the process runs, an iteration of the detector that has begun
\* reaches its wait, a call of _reset_timer returns, and a timer thread that
\* has entered _on_timer gets through its sync sequence.
Ended(t) == timers[t].st \in {"done", "crashed", "exited", "killed", "dropped"}

C6_NoDeadlock ==
    /\ [](lock \in {Free, Observer} \cup TimerIds)
    /\ (ppc \in {"fetch", "decide", "clone", "pull"})
            ~> (ppc \in {"wait", "sleep", "returned"})
    /\ (hpc \in {"reset", "locked"}) ~> (hpc = "idle" \/ mpc = "exited")
    /\ \A t \in TimerIds :
        (timers[t].st = "fired" \/ timers[t].st = "locked" \/ InSync(t))
            ~> Ended(t)

\* the detector is inside clone or pull while a timer of the watcher counts
\* down and another thread of it is inside the sync sequence or at the lock
C6_Witness ==
    /\ ppc \in {"clone", "pull"}
    /\ \E t \in TimerIds : InSync(t) \/ timers[t].st \in {"waiting", "fired"}
    /\ ~stop

\* C8: once the stop signal is set the tasks return and main's join returns,
\* each task having completed the gateway operation it had in progress:
\* when the process has ended, no sync sequence was cut short.
C8_StopCompletesOperations ==
    mpc = "exited" => \A t \in TimerIds : timers[t].st # "killed"

\* C9: poll_loop and watch_loop return only after the stop signal is set.
C9_ReturnsOnlyAfterStop == (ppc = "returned" \/ wpc = "returned") => stop

\* C11: clone with a branch that does not exist upstream runs a second clone
\* without the branch and returns success exactly when that second clone
\* succeeds; it returns failure when the first clone fails for any other
\* reason, and when the second clone fails too.
BranchMissing(raw) == raw = Exit(128, <<>>, BranchNotFoundMsg)
Succeeded(raw) == raw.kind = "exit" /\ raw.code = 0
C11_CloneFallback ==
    lastCall.op = "clone" =>
        /\ BranchMissing(lastCall.raw) =>
               /\ lastCall.runs = 2
               /\ lastCall.ret = Ret(TRUE) <=> Succeeded(lastCall.raw2)
        /\ (~Succeeded(lastCall.raw) /\ ~BranchMissing(lastCall.raw)) =>
               lastCall.ret = Ret(FALSE)
        /\ (BranchMissing(lastCall.raw) /\ ~Succeeded(lastCall.raw2)) =>
               lastCall.ret = Ret(FALSE)

\* C12: every gateway operation returns its failure for every outcome of the
\* external call (non-zero exit, timeout, no process started) and never
\* raises; a timeout comes back from _run_git as (-1, "Timeout").
C12_GatewayNeverRaises ==
    lastCall.op # "none" =>
        /\ ~lastCall.ret.raised
        /\ ~Succeeded(lastCall.raw) =>
               (lastCall.op = "commit" \/ lastCall.ret = Ret(FALSE)
                \/ (lastCall.op = "clone" /\ lastCall.runs = 2))
        /\ lastCall.raw.kind = "timeout" =>
               /\ run_git(lastCall.raw).code = -1
               /\ run_git(lastCall.raw).err = <<"Timeout">>

\* C13: a watcher never has more than one scheduled callback that is neither
\* cancelled nor running its sync sequence, and _timer is None or that
\* callback: the callback an event scheduled is cancelled by the next
\* qualifying event that arrives before it fires.
Pending == {t \in TimerIds : timers[t].st \in {"waiting", "fired", "locked"}}
C13_OnePendingCallback ==
    /\ Cardinality(Pending) <= 1
    /\ timer # NoTimer => timer \in Pending

\* C14: a fired sync sequence calls is_git_repo, has_changes, pull_before_push
\* (if configured), add_all, commit, push in this order, each at most once and
\* only after every earlier call of the fire returned True; a directory that
\* is no working copy ends it after is_git_repo.
StepOrder(c) ==
    <<"is_git_repo", "has_changes">>
        \o (IF c.pull_before_push THEN <<"pull_before_push">> ELSE <<>>)
        \o <<"add_all", "commit", "push">>
C14_StepOrder ==
    \A t \in TimerIds :
        LET calls == timers[t].calls
        IN  /\ Len(calls) <= Len(StepOrder(cfg))
            /\ \A i \in 1..Len(calls) :
                /\ calls[i].op = StepOrder(cfg)[i]
                /\ i < Len(calls) => calls[i].ret
            /\ (calls # <<>> /\ ~calls[Len(calls)].ret) =>
                   timers[t].st \in {"done", "crashed"}
C14_Witness ==
    \E t \in TimerIds :
        /\ timers[t].st = "done"
        /\ cfg.pull_before_push
        /\ Len(timers[t].calls) = 6
        /\ timers[t].calls[6].op = "push"
        /\ \A i \in 1..6 : timers[t].calls[i].ret

\* C15: two sync sequences of one watcher never run at the same time: no
\* callback starts _do_commit_and_push while an earlier sequence is between
\* its first and its last gateway call.
C15_NoConcurrentSyncs ==
    \A t1, t2 \in TimerIds :
        (t1 # t2 /\ InSync(t1) /\ timers[t1].calls # <<>>) => ~InSync(t2)

\* C18: once watch_loop has returned on the stop signal, no sync sequence of
\* that watcher starts: no pending callback enters _do_commit_and_push.
C18_NoSyncAfterReturn ==
    [][(wpc = "returned" /\ stop) =>
           \A t \in TimerIds :
               ~(timers[t].st = "locked" /\ timers'[t].st = "is_git_repo")]_vars

\* the call of observation i has returned; last_sha as the detector holds it
\* after observation i; the first observation after i whose query succeeded
Returned(i) == i < Len(pollLog) \/ ppc \notin {"clone", "pull"}
SeenAfter(i) == IF i < Len(pollLog) THEN pollLog[i + 1].seen ELSE last_sha
NextQueried(i, j) ==
    /\ j > i
    /\ pollLog[j].sha # None
    /\ \A k \in (i + 1)..(j - 1) : pollLog[k].sha = None

\* C16: a clone or pull of the detector that fails leaves last_sha as it was,
\* and the next iteration whose query succeeds issues it again (clone while
\* there is no working copy, pull while the fetched revision differs from
\* last_sha); one that succeeds makes last_sha the fetched revision.
C16_FailedCallRetried ==
    \A i \in 1..Len(pollLog) :
        (pollLog[i].call \in {"clone", "pull"} /\ Returned(i)) =>
            IF pollLog[i].ok
            THEN SeenAfter(i) = pollLog[i].sha
            ELSE /\ SeenAfter(i) = pollLog[i].seen
                 /\ \A j \in 1..Len(pollLog) :
                        NextQueried(i, j) =>
                            /\ (pollLog[i].call = "clone" /\ ~pollLog[j].repo) =>
                                   pollLog[j].call = "clone"
                            /\ (pollLog[i].call = "pull"
                                /\ pollLog[j].sha # pollLog[j].seen) =>
                                   pollLog[j].call = "pull"
C16_Witness ==
    /\ Len(pollLog) >= 4
    /\ pollLog[1].call = "clone" /\ ~pollLog[1].ok
    /\ pollLog[2].call = "clone" /\ pollLog[2].ok
    /\ pollLog[3].call = "pull" /\ ~pollLog[3].ok
    /\ pollLog[4].call = "pull" /\ pollLog[4].ok
    /\ ppc = "wait"
    /\ last_sha = pollLog[4].sha

\* C17: every blocking wait of poll_loop and of watch_loop ends on the stop
\* signal: with the signal set, a task in its poll-interval wait (the one
\* after a failed query too), in its wait for the directory or in its idle
\* wait can leave that wait at once, whatever is left of the interval.
C17_WaitsEndOnStop ==
    stop =>
        /\ ppc = "wait" => ENABLED PollWake
        /\ ppc = "sleep" => ENABLED PollSleepEnd
        /\ wpc = "dirwait" => ENABLED WatchDirWake
        /\ wpc = "running" => ENABLED WatchStop

\* C19: an iteration of the detector whose query fails issues no clone and no
\* pull and leaves last_sha as it was, and the next query is made only when
\* a full poll interval has passed.
C19_FailedQuerySkips ==
    \A i \in 1..Len(pollLog) :
        pollLog[i].sha = None =>
            /\ pollLog[i].call = "none"
            /\ SeenAfter(i) = pollLog[i].seen
            /\ (i = Len(pollLog) /\ ppc = "fetch") => pwait = 0
C19_Witness ==
    \E i \in 1..(Len(pollLog) - 1) :
        /\ pollLog[i].sha = None
        /\ pollLog[i].seen # None
        /\ pollLog[i + 1].sha # None
        /\ pollLog[i + 1].seen = pollLog[i].seen

\* C20: the detector issues a pull only when a working copy exists, last_sha
\* is not None and the fetched revision differs from it, and one call at most
\* per iteration; with a working copy present at start, the first query that
\* succeeds issues no call and only sets last_sha to the fetched revision.
C20_PullOnlyOnChange ==
    /\ \A i \in 1..Len(pollLog) :
        /\ pollLog[i].call = "pull" =>
               /\ pollLog[i].repo
               /\ pollLog[i].seen # None
               /\ pollLog[i].sha # pollLog[i].seen
        /\ (pollLog[1].repo /\ NextQueried(0, i)) =>
               /\ pollLog[i].call = "none"
               /\ pollLog[i].seen = None
               /\ SeenAfter(i) = pollLog[i].sha
    /\ ppc \in {"clone", "pull"} =>
           (pollLog # <<>> /\ pollLog[Len(pollLog)].call = ppc)
C20_Witness ==
    /\ Len(pollLog) >= 2
    /\ pollLog[1].repo
    /\ pollLog[1].sha # None
    /\ pollLog[2].call = "pull"
    /\ pollLog[2].seen = pollLog[1].sha

====
